---- MODULE Spec2Model ----
(***************************************************************************)
(* A model of the real-estate chat bot: the DataManager's in-memory cache  *)
(* with time-based expiry and its asynchronous fetch (src/data/manager.py),*)
(* the intent classifier of RealEstateAgent (src/real_estate_agent.py) and *)
(* the query dispatch of RealEstateChatInterface (src/chat_interface.py).  *)
(*                                                                         *)
(* Python strings are TLA+ strings, handled with Len, SubSeq and \o.       *)
(* An Optional value is a sequence: << >> is None, <<v>> is the value v.   *)
(* A Python dict is a TLA+ function (a record) with that domain.           *)
(***************************************************************************)
EXTENDS Integers, Sequences, FiniteSets, TLC

VARIABLES
    now,      \* datetime.now(), in hours since the DataManager was built
    cache,    \* DataManager._cache: key -> [data, timestamp]
    tasks,    \* the fetch_property_data coroutines: idle, or suspended in the API call
    ret,      \* what the last call on the DataManager handed to its caller
    putLog,   \* history: per key, the record and time of the last _add_to_cache
    keyCall,  \* the last query parsed or address a cache key was generated for, and the outcome
    call,     \* chat side: the last method called, with its argument
    intent,   \* chat side: what analyze_query_type returned
    result,   \* chat side: what process_query returned (and the handler it ran)
    scored    \* scoring side: the last scorer method called, its argument and outcome

vars == <<now, cache, tasks, ret, putLog, keyCall, call, intent, result, scored>>
cacheVars == <<now, cache, tasks, ret, putLog>>
chatVars == <<call, intent, result>>

---------------------------------------------------------------------------
(* Bounds of the model *)

\* how many times the clock is advanced
MaxTicks == 3
\* how many fetch_property_data coroutines may be in flight together
NumTasks == 2

---------------------------------------------------------------------------
(* Strings *)

None == << >>
Some(v) == <<v>>

UpperLetters == "ABCDEFGHIJKLMNOPQRSTUVWXYZ"
LowerLetters == "abcdefghijklmnopqrstuvwxyz"
Digits == "0123456789"

CharAt(s, i) == SubSeq(s, i, i)

CharIn(c, alphabet) == \E i \in 1..Len(alphabet) : CharAt(alphabet, i) = c

\* str.lower() of one character
LowerChar(c) ==
    IF CharIn(c, UpperLetters)
    THEN CharAt(LowerLetters, CHOOSE i \in 1..Len(UpperLetters) : CharAt(UpperLetters, i) = c)
    ELSE c

RECURSIVE Lower(_)
\* str.lower()
Lower(s) == IF s = "" THEN "" ELSE LowerChar(CharAt(s, 1)) \o Lower(SubSeq(s, 2, Len(s)))

\* str.isdigit(): non-empty and every character a digit
IsDigit(s) == s # "" /\ \A i \in 1..Len(s) : CharIn(CharAt(s, i), Digits)

IsSpace(c) == c \in {" ", "\t", "\n"}

RECURSIVE SplitFrom(_, _, _)
\* str.split(): the maximal runs of non-whitespace characters, in order;
\* word is the run being read
SplitFrom(s, i, word) ==
    IF i > Len(s)
    THEN IF word = "" THEN << >> ELSE <<word>>
    ELSE IF IsSpace(CharAt(s, i))
         THEN (IF word = "" THEN << >> ELSE <<word>>) \o SplitFrom(s, i + 1, "")
         ELSE SplitFrom(s, i + 1, word \o CharAt(s, i))

Split(s) == SplitFrom(s, 1, "")

RECURSIVE Join(_, _)
\* sep.join(parts)
Join(sep, parts) ==
    IF parts = << >> THEN ""
    ELSE IF Len(parts) = 1 THEN parts[1]
    ELSE parts[1] \o sep \o Join(sep, Tail(parts))

\* "needle in haystack" on strings
Contains(haystack, needle) ==
    \E i \in 1..(Len(haystack) - Len(needle) + 1) :
        SubSeq(haystack, i, i + Len(needle) - 1) = needle

\* str.strip()
RECURSIVE LStrip(_)
LStrip(s) == IF s # "" /\ IsSpace(CharAt(s, 1)) THEN LStrip(SubSeq(s, 2, Len(s))) ELSE s
RECURSIVE RStrip(_)
RStrip(s) == IF s # "" /\ IsSpace(CharAt(s, Len(s))) THEN RStrip(SubSeq(s, 1, Len(s) - 1)) ELSE s
Strip(s) == RStrip(LStrip(s))

---------------------------------------------------------------------------
(* DataManager (src/data/manager.py) *)

\* self._cache_ttl = timedelta(hours=24), in hours
TTL == 24

\* the clock advances by half a TTL, so that an entry is seen at ages below,
\* equal to and above TTL
TickHours == TTL \div 2

StreetSuffixes == {"st", "street", "ave", "avenue", "rd", "road"}

EmptyAddress ==
    [street_number |-> "", street_name |-> "", city |-> "", state |-> "", zip |-> ""]

\* parts[lo:hi] of Python (0-based, hi exclusive), as a TLA+ sequence
Slice(parts, lo, hi) ==
    LET l == IF lo > Len(parts) THEN Len(parts) ELSE lo
        h == IF hi > Len(parts) THEN Len(parts) ELSE hi
    IN  SubSeq(parts, l + 1, h)

\* the elif branch with the street name joined from the first token on
SuffixBranchFromFirst(parts, i, address) ==
    LET named == [address EXCEPT !.street_name = Join(" ", Slice(parts, 0, i + 1))]
        remaining == Slice(parts, i + 1, Len(parts))
    IN  IF Len(remaining) >= 2
        THEN LET placed == [named EXCEPT !.city = remaining[1], !.state = remaining[2]]
             IN  IF Len(remaining) > 2 /\ IsDigit(remaining[3])
                 THEN [placed EXCEPT !.zip = remaining[3]]
                 ELSE placed
        ELSE named

\* the body of the elif branch: the street name, then city, state and zip
SuffixBranch(parts, i, address) ==
    LET named == [address EXCEPT !.street_name = Join(" ", Slice(parts, 1, i + 1))]
        remaining == Slice(parts, i + 1, Len(parts))
    IN  IF Len(remaining) >= 2
        THEN LET placed == [named EXCEPT !.city = remaining[1], !.state = remaining[2]]
             IN  IF Len(remaining) > 2 /\ IsDigit(remaining[3])
                 THEN [placed EXCEPT !.zip = remaining[3]]
                 ELSE placed
        ELSE named

RECURSIVE ParseLoop(_, _, _)
\* for i, part in enumerate(parts): i is the 0-based index of Python
ParseLoop(parts, i, address) ==
    IF i >= Len(parts) THEN address
    ELSE LET part == parts[i + 1]
         IN  IF IsDigit(part) /\ address.street_number = ""
             THEN ParseLoop(parts, i + 1, [address EXCEPT !.street_number = part])
             ELSE IF part \in StreetSuffixes
                  THEN SuffixBranch(parts, i, address)
                  ELSE ParseLoop(parts, i + 1, address)

\* DataManager._parse_address
ParseAddress(query) == ParseLoop(Split(Lower(query)), 0, EmptyAddress)

\* filter(None, components): the non-empty strings, in order
FilterNonEmpty(components) == SelectSeq(components, LAMBDA c : c # "")

\* DataManager._generate_cache_key without filter(None, ...): empty fields joined too
GenerateCacheKeyUnfiltered(address) ==
    Lower(Join("_", <<address.street_number, address.street_name,
                      address.city, address.state, address.zip>>))

\* DataManager._generate_cache_key
GenerateCacheKey(address) ==
    Lower(Join("_", FilterNonEmpty(<<address.street_number, address.street_name,
                                     address.city, address.state, address.zip>>)))

\* a Python value that the data hands over as an int in one record and as a
\* str in another (owner_info's time_owned and estimated_equity)
PyInt(n) == [type |-> "int", int |-> n, str |-> ""]
PyStr(s) == [type |-> "str", int |-> 0, str |-> s]

\* the record _populate_mock_data writes over the processed response; the
\* float fields (lot_size, cap_rate) and market_data's display strings are
\* left out
MockRecord ==
    [address |-> "123 Main St, Bessemer, AL 35020",
     price |-> 150000,
     property_details |->
        [beds |-> 3, baths |-> 2, sqft |-> 1800, year_built |-> 1985,
         condition |-> "Fair",
         repairs_needed |->
            [major |-> <<"Roof replacement", "HVAC system upgrade">>,
             moderate |-> <<"Kitchen renovation", "Bathroom updates">>,
             minor |-> <<"Interior paint", "Carpet replacement", "Landscaping">>]],
     owner_info |->
        [type |-> "Absentee", time_owned |-> PyStr("2010"),
         estimated_equity |-> PyStr("45%"),
         tax_status |-> "Delinquent"],
     financial_metrics |->
        [arv |-> 225000, repair_estimate |-> 45000, max_offer |-> 135000,
         potential_roi |-> 28, rental_estimate |-> 1500],
     distress_indicators |-> <<"tax_delinquent", "vacant">>,
     lead_status |->
        [category |-> "Hot", priority |-> 1,
         next_action |-> "Direct Mail + Phone Call", follow_up_date |-> "2025-03-21"]]

\* DataManager._process_api_response: the response body is not read, the
\* skeleton record is overwritten key by key with the mock data
ProcessApiResponse == MockRecord

\* a record a caller seeds the cache with
SeedRecord ==
    [address |-> "456 Oak Ave",
     price |-> 90000,
     distress_indicators |-> <<"vacant">>]

\* the records callers seed the cache with; the data source's record comes
\* in through fetch_property_data
Records == {SeedRecord}

\* the failures of _fetch_from_api: a status other than 200, a network error
ApiErrors == {"API request failed with status 500", "Cannot connect to host"}

\* bool(d) of a dict
Truthy(d) == DOMAIN d # {}

\* del c[key]
Del(c, key) == [k \in DOMAIN c \ {key} |-> c[k]]

\* DataManager._get_from_cache, a hit stamping the entry anew
GetFromCacheRefreshing(c, t, key) ==
    IF key \in DOMAIN c
    THEN IF t - c[key].timestamp < TTL
         THEN [ret |-> Some(c[key].data),
               cache |-> [c EXCEPT ![key] = [data |-> c[key].data, timestamp |-> t]]]
         ELSE [ret |-> None, cache |-> Del(c, key)]
    ELSE [ret |-> None, cache |-> c]

\* DataManager._get_from_cache, an entry of age TTL still served
GetFromCacheInclusive(c, t, key) ==
    IF key \in DOMAIN c
    THEN IF t - c[key].timestamp <= TTL
         THEN [ret |-> Some(c[key].data), cache |-> c]
         ELSE [ret |-> None, cache |-> Del(c, key)]
    ELSE [ret |-> None, cache |-> c]

\* DataManager._get_from_cache, a stale entry served and left in place
GetFromCacheNoExpiry(c, t, key) ==
    IF key \in DOMAIN c
    THEN [ret |-> Some(c[key].data), cache |-> c]
    ELSE [ret |-> None, cache |-> c]

\* DataManager._get_from_cache: what it returns and the cache it leaves
GetFromCache(c, t, key) ==
    IF key \in DOMAIN c
    THEN IF t - c[key].timestamp < TTL
         THEN [ret |-> Some(c[key].data), cache |-> c]
         ELSE [ret |-> None, cache |-> Del(c, key)]
    ELSE [ret |-> None, cache |-> c]

\* DataManager._add_to_cache, a fresh entry under the key kept as it is
AddToCacheKeepFresh(c, t, key, data) ==
    IF key \in DOMAIN c /\ t - c[key].timestamp < TTL
    THEN c
    ELSE [k \in DOMAIN c \cup {key} |->
            IF k = key THEN [data |-> data, timestamp |-> t] ELSE c[k]]

\* DataManager._add_to_cache
AddToCache(c, t, key, data) ==
    [k \in DOMAIN c \cup {key} |->
        IF k = key THEN [data |-> data, timestamp |-> t] ELSE c[k]]

---------------------------------------------------------------------------
(* The DataManager's state machine *)

Tasks == 1..NumTasks

\* the queries handed to fetch_property_data
FetchQueries ==
    {"123 main st bessemer al 35020",
     "123 MAIN ST Bessemer AL 35020",
     "hello there"}

\* _parse_address and _generate_cache_key of each of those queries, computed once
ParsedAddress == [q \in FetchQueries |-> ParseAddress(q)]
CacheKeyOf == [q \in FetchQueries |-> GenerateCacheKey(ParsedAddress[q])]

\* the keys those queries are cached under
CacheKeys == {CacheKeyOf[q] : q \in FetchQueries}

Idle == [pc |-> "idle", address |-> EmptyAddress, cache_key |-> "", api_calls |-> 0]

\* ret: the method that returned last (op, key), how it ended (kind: return or
\* raise), what it handed back, and how many times it called _fetch_from_api
NoReturn ==
    [op |-> "none", key |-> "", kind |-> "none", data |-> None, err |-> "", calls |-> 0]

Returned(op, key, data, calls) ==
    [op |-> op, key |-> key, kind |-> "return", data |-> data, err |-> "", calls |-> calls]

Raised(op, key, err, calls) ==
    [op |-> op, key |-> key, kind |-> "raise", data |-> None, err |-> err, calls |-> calls]

\* DataManager.__init__: an empty cache; no call made yet
InitCache ==
    /\ now = 0
    /\ cache = << >>
    /\ tasks = [t \in Tasks |-> Idle]
    /\ ret = NoReturn
    /\ putLog = << >>

InitKey == keyCall = [method |-> "none", query |-> "", address |-> EmptyAddress, key |-> ""]

NoCall == [method |-> "none", isStr |-> TRUE, query |-> ""]
NoIntent == ""
NoResult ==
    [raised |-> FALSE, status |-> "none", message |-> "", handler |-> "", response |-> << >>]

InitChat ==
    /\ call = NoCall
    /\ intent = NoIntent
    /\ result = NoResult

\* no scorer method called yet
\* scored: the method and its argument, the year or day datetime.now() gave
\* it, the weights table it read, and its outcome: an exception (raised,
\* exc), a number (value), a lead score dict (lead) or an action dict (action)
NoScored ==
    [method |-> "none", arg |-> << >>, clock |-> 0, weights |-> << >>,
     raised |-> FALSE, exc |-> "", value |-> 0, lead |-> << >>, action |-> << >>]

InitScore == scored = NoScored

Init == InitCache /\ InitKey /\ InitChat /\ InitScore

\* time passes between two steps of the program
Tick ==
    /\ now + TickHours <= MaxTicks * TickHours
    /\ now' = now + TickHours
    /\ UNCHANGED <<cache, tasks, ret, putLog, chatVars, keyCall, scored>>

\* the history of _add_to_cache calls: key was last given data at time t
LogPut(log, t, key, data) ==
    [k \in DOMAIN log \cup {key} |->
        IF k = key THEN [data |-> data, timestamp |-> t] ELSE log[k]]

\* a call of _get_from_cache(key)
Get(key) ==
    LET g == GetFromCache(cache, now, key)
    IN  /\ cache' = g.cache
        /\ ret' = Returned("get", key, g.ret, 0)
        /\ UNCHANGED <<now, tasks, putLog, chatVars, keyCall, scored>>

\* a call of _add_to_cache(key, data)
Put(key, data) ==
    /\ cache' = AddToCache(cache, now, key, data)
    /\ putLog' = LogPut(putLog, now, key, data)
    /\ ret' = Returned("put", key, None, 0)
    /\ UNCHANGED <<now, tasks, chatVars, keyCall, scored>>

\* what fetch_property_data(query) does up to its first return or await:
\* on a hit the cached record is returned; on a miss _fetch_from_api is
\* called (one request to the data source) and the coroutine is suspended
FetchBegin(c, t, tk, query) ==
    LET address == ParsedAddress[query]
        cache_key == CacheKeyOf[query]
        g == GetFromCache(c, t, cache_key)
    IN  IF g.ret # None /\ Truthy(g.ret[1])
        THEN [cache |-> g.cache, task |-> tk,
              ret |-> Some(Returned("fetch", cache_key, g.ret, tk.api_calls))]
        ELSE [cache |-> g.cache,
              task |-> [pc |-> "await_api", address |-> address,
                        cache_key |-> cache_key, api_calls |-> tk.api_calls + 1],
              ret |-> None]

FetchStart(t, query) ==
    /\ tasks[t].pc = "idle"
    /\ LET f == FetchBegin(cache, now, tasks[t], query)
       IN  /\ cache' = f.cache
           /\ tasks' = [tasks EXCEPT ![t] = f.task]
           /\ ret' = IF f.ret = None THEN ret ELSE f.ret[1]
    /\ UNCHANGED <<now, putLog, chatVars, keyCall, scored>>

\* fetch_property_data after _fetch_from_api returns, the record returned
\* but not stored
FetchEndNoStore(c, t, tk, property_data) ==
    [cache |-> c,
     task |-> Idle,
     ret |-> Returned("fetch", tk.cache_key, Some(property_data), tk.api_calls)]

\* what fetch_property_data does when _fetch_from_api returns property_data
FetchEnd(c, t, tk, property_data) ==
    [cache |-> AddToCache(c, t, tk.cache_key, property_data),
     task |-> Idle,
     ret |-> Returned("fetch", tk.cache_key, Some(property_data), tk.api_calls)]

\* the data source answers 200: the record is cached and returned
FetchReturn(t) ==
    /\ tasks[t].pc = "await_api"
    /\ LET f == FetchEnd(cache, now, tasks[t], ProcessApiResponse)
       IN  /\ cache' = f.cache
           /\ putLog' = LogPut(putLog, now, tasks[t].cache_key, ProcessApiResponse)
           /\ tasks' = [tasks EXCEPT ![t] = f.task]
           /\ ret' = f.ret
    /\ UNCHANGED <<now, chatVars, keyCall, scored>>

\* the except clause, with the failed fetch remembered: the skeleton record
\* is cached under the key and the error is raised
FetchExceptCaching(c, t, tk, err) ==
    [cache |-> AddToCache(c, t, tk.cache_key, SeedRecord),
     task |-> Idle,
     ret |-> Raised("fetch", tk.cache_key, err, tk.api_calls)]

\* what fetch_property_data does when _fetch_from_api raises err: the except
\* clause logs and raises it again
FetchExcept(c, t, tk, err) ==
    [cache |-> c, task |-> Idle, ret |-> Raised("fetch", tk.cache_key, err, tk.api_calls)]

\* the data source fails with err
FetchRaise(t, err) ==
    /\ tasks[t].pc = "await_api"
    /\ LET f == FetchExcept(cache, now, tasks[t], err)
       IN  /\ cache' = f.cache
           /\ tasks' = [tasks EXCEPT ![t] = f.task]
           /\ ret' = f.ret
    /\ UNCHANGED <<now, putLog, chatVars, keyCall, scored>>

NextCache ==
    \/ Tick
    \/ \E key \in CacheKeys : Get(key)
    \/ \E key \in CacheKeys, data \in Records : Put(key, data)
    \/ \E t \in Tasks, query \in FetchQueries : FetchStart(t, query)
    \/ \E t \in Tasks : FetchReturn(t)
    \/ \E t \in Tasks, err \in ApiErrors : FetchRaise(t, err)

Spec == Init /\ [][NextCache]_vars

---------------------------------------------------------------------------
(* Properties of the cache *)

\* the claims' words for an entry: present, and fresh or stale by its age
Present(c, key) == key \in DOMAIN c
Fresh(c, t, key) == Present(c, key) /\ t - c[key].timestamp < TTL
Stale(c, t, key) == Present(c, key) /\ t - c[key].timestamp >= TTL

\* C1: a get(k) made while less than TTL has passed since the last put(k, v)
\* returns exactly v, whatever was stored under k before that put.
CacheRoundTrip ==
    [][\A key \in CacheKeys :
        (Get(key) /\ key \in DOMAIN putLog /\ now - putLog[key].timestamp < TTL)
            => (ret'.kind = "return" /\ ret'.data = Some(putLog[key].data))]_vars

\* C1 witness: a get has just returned the seeded record, put over an older
\* entry's key some time ago but less than TTL ago.
CacheRoundTripWitness ==
    /\ ret.op = "get" /\ ret.data = Some(SeedRecord)
    /\ ret.key \in DOMAIN putLog
    /\ putLog[ret.key].data = SeedRecord
    /\ now - putLog[ret.key].timestamp > 0
    /\ now - putLog[ret.key].timestamp < TTL

\* C2: get(k) returns the stored record iff an entry exists and its age is
\* strictly below TTL; at age TTL or more it reports absent and that same
\* lookup removes the entry.
GetFreshOnly ==
    [][\A key \in CacheKeys :
        Get(key) =>
            /\ ret'.kind = "return"
            /\ (ret'.data # None) <=> (Present(cache, key) /\ now - cache[key].timestamp < TTL)
            /\ Fresh(cache, now, key) => ret'.data = Some(cache[key].data)
            /\ (Present(cache, key) /\ now - cache[key].timestamp >= TTL)
                  => ~Present(cache', key)]_vars

\* C2 witness: a get on an entry of age exactly TTL has reported absent and
\* the entry is gone.
GetFreshOnlyWitness ==
    /\ ret.op = "get" /\ ret.data = None
    /\ ret.key \in DOMAIN putLog
    /\ now - putLog[ret.key].timestamp = TTL
    /\ ~Present(cache, ret.key)

\* C3: once TTL has passed since put(k, v), every get(k) reports absent until
\* a new put(k, ...); without a put an entry only moves absent -> absent,
\* fresh -> fresh or stale, stale -> stale or absent.
ExpiryPermanent ==
    [][\A key \in CacheKeys :
        /\ (Get(key) /\ key \in DOMAIN putLog /\ now - putLog[key].timestamp >= TTL)
              => ret'.data = None
        /\ (Get(key) /\ key \notin DOMAIN putLog) => ret'.data = None
        /\ ((key \in DOMAIN putLog <=> key \in DOMAIN putLog')
            /\ (key \in DOMAIN putLog => putLog'[key] = putLog[key]))
              => /\ ~Present(cache, key) => ~Present(cache', key)
                 /\ Stale(cache, now, key) => ~Fresh(cache', now', key)
                 /\ Fresh(cache, now, key) => Present(cache', key)]_vars

\* C3 witness: a get long after the put (more than TTL) has reported absent,
\* the entry having been removed.
ExpiryPermanentWitness ==
    /\ ret.op = "get" /\ ret.data = None
    /\ ret.key \in DOMAIN putLog
    /\ now - putLog[ret.key].timestamp > TTL
    /\ ~Present(cache, ret.key)

\* C4: a fetch that finds a fresh entry under its key returns that record and
\* calls the data source zero times; on a miss it calls the data source
\* once, stores the record it got under the key with stored_at = now and
\* returns that record; a fetch of the key made within TTL of that store is a
\* hit.
FetchHitOrSingleCall ==
    [][/\ \A t \in Tasks, query \in FetchQueries :
            FetchStart(t, query) =>
                LET key == CacheKeyOf[query]
                IN  /\ Fresh(cache, now, key) =>
                          /\ ret' = Returned("fetch", key, Some(cache[key].data), 0)
                          /\ tasks'[t].pc = "idle"
                    /\ ~Fresh(cache, now, key) =>
                          /\ tasks'[t].pc = "await_api"
                          /\ tasks'[t].api_calls = 1
                          /\ ret' = ret
                    /\ (key \in DOMAIN putLog /\ now - putLog[key].timestamp < TTL) =>
                          /\ tasks'[t].pc = "idle"
                          /\ ret'.data = Some(putLog[key].data)
                          /\ ret'.calls = 0
       /\ \A t \in Tasks :
            FetchReturn(t) =>
                LET key == tasks[t].cache_key
                IN  /\ ret'.kind = "return" /\ ret'.data # None /\ ret'.calls = 1
                    /\ Present(cache', key)
                    /\ cache'[key] = [data |-> ret'.data[1], timestamp |-> now]
                    /\ tasks'[t].pc = "idle"]_vars

\* C4 witness: a fetch has just been served from the cache the record an
\* earlier fetch got from the data source.
FetchHitOrSingleCallWitness ==
    /\ ret.op = "fetch" /\ ret.kind = "return" /\ ret.calls = 0
    /\ ret.data = Some(ProcessApiResponse)
    /\ Fresh(cache, now, ret.key)
    /\ now - cache[ret.key].timestamp > 0

\* C5: when the data source fails, fetch raises that same failure, has called
\* the data source once and not again, and writes nothing to the cache.
FailurePropagates ==
    [][\A t \in Tasks, err \in ApiErrors :
        FetchRaise(t, err) =>
            /\ ret'.kind = "raise" /\ ret'.err = err
            /\ ret'.calls = 1
            /\ tasks'[t].pc = "idle"
            /\ cache' = cache]_vars

\* C5 witness: a fetch has just raised the data source's error and the cache
\* holds nothing under its key.
FailurePropagatesWitness ==
    /\ ret.op = "fetch" /\ ret.kind = "raise" /\ ret.err \in ApiErrors
    /\ ~Present(cache, ret.key)

\* C6: at most one data-source fetch is in flight per cache key.
AtMostOneInFlightPerKey ==
    \A t1, t2 \in Tasks :
        (t1 # t2 /\ tasks[t1].pc = "await_api" /\ tasks[t2].pc = "await_api")
            => tasks[t1].cache_key # tasks[t2].cache_key

---------------------------------------------------------------------------
(* Cache keys of addresses *)

NumberFields == {"", "123"}
NameFields == {"", "Main St"}
CityFields == {"", "Bessemer"}
StateFields == {"", "AL"}
ZipFields == {"", "35020"}

\* the Address values keys are generated for
Addresses ==
    [street_number : NumberFields, street_name : NameFields, city : CityFields,
     state : StateFields, zip : ZipFields]

\* the addresses records are stored for, and those looked up
StoreAddresses ==
    {[street_number |-> "123", street_name |-> "main st", city |-> "bessemer",
      state |-> "al", zip |-> "35020"],
     [street_number |-> "123", street_name |-> "main st", city |-> "",
      state |-> "", zip |-> ""]}

LookupAddresses ==
    StoreAddresses \cup
    {[street_number |-> "123", street_name |-> "Main St", city |-> "Bessemer",
      state |-> "AL", zip |-> "35020"],
     [street_number |-> "123", street_name |-> "main st", city |-> "",
      state |-> "al", zip |-> ""],
     [street_number |-> "456", street_name |-> "Main St", city |-> "",
      state |-> "", zip |-> ""]}

\* _generate_cache_key of each of those addresses, computed once
KeyTable == [a \in Addresses \cup LookupAddresses |-> GenerateCacheKey(a)]

\* the claims' words for a key: the fields in their order, those that are
\* empty dropped, each lowercased, with underscores between them
FieldOrder == <<"street_number", "street_name", "city", "state", "zip">>

RECURSIVE JoinedFrom(_, _)
JoinedFrom(address, i) ==
    IF i > Len(FieldOrder) THEN ""
    ELSE LET field == Lower(address[FieldOrder[i]])
             rest == JoinedFrom(address, i + 1)
         IN  IF field = "" THEN rest
             ELSE IF rest = "" THEN field
             ELSE field \o "_" \o rest

EntityKey(address) == JoinedFrom(address, 1)

\* a call of _generate_cache_key(address)
KeyFor(address) ==
    /\ keyCall' = [method |-> "key", query |-> "", address |-> address,
                   key |-> KeyTable[address]]
    /\ UNCHANGED <<cacheVars, chatVars, scored>>

\* a record is cached for address: _add_to_cache(_generate_cache_key(address), data)
StoreFor(address, data) ==
    LET cache_key == KeyTable[address]
    IN  /\ keyCall' = [method |-> "store", query |-> "", address |-> address,
                       key |-> cache_key]
        /\ cache' = AddToCache(cache, now, cache_key, data)
        /\ putLog' = LogPut(putLog, now, EntityKey(address), data)
        /\ ret' = Returned("put", cache_key, None, 0)
        /\ UNCHANGED <<now, tasks, chatVars, scored>>

\* the record of address is looked up: _get_from_cache(_generate_cache_key(address))
LookupFor(address) ==
    LET cache_key == KeyTable[address]
        g == GetFromCache(cache, now, cache_key)
    IN  /\ keyCall' = [method |-> "lookup", query |-> "", address |-> address,
                       key |-> cache_key]
        /\ cache' = g.cache
        /\ ret' = Returned("get", cache_key, g.ret, 0)
        /\ UNCHANGED <<now, tasks, putLog, chatVars, scored>>

NextKey ==
    \/ \E address \in Addresses : KeyFor(address)
    \/ \E address \in StoreAddresses, data \in Records : StoreFor(address, data)
    \/ \E address \in LookupAddresses : LookupFor(address)

SpecKey == Init /\ [][NextKey]_vars

\* C7: the key generated for an address is its non-empty fields, in the order
\* street_number, street_name, city, state, zip, lowercased and joined by
\* underscores; a lookup for an address finds the record last stored for any
\* address with that same key, and nothing when no such address was stored.
KeyIsJoinedFields ==
    /\ keyCall.key = EntityKey(keyCall.address)
    /\ keyCall.method = "lookup" =>
          ret.data = IF EntityKey(keyCall.address) \in DOMAIN putLog
                     THEN Some(putLog[EntityKey(keyCall.address)].data)
                     ELSE None

\* C7 witness: the lookup for an address written in capitals, with all five
\* fields, has found the seeded record, stored for the lowercase address.
KeyIsJoinedFieldsWitness ==
    /\ keyCall.method = "lookup"
    /\ keyCall.address.street_name = "Main St"
    /\ keyCall.address.state = "AL"
    /\ keyCall.key = "123_main st_bessemer_al_35020"
    /\ ret.data = Some(SeedRecord)

---------------------------------------------------------------------------
(* RealEstateAgent.analyze_query_type (src/real_estate_agent.py) *)

\* self.query_patterns: the dict in its insertion order, the order in which
\* items() yields it
QueryPatterns ==
    <<[query_type |-> "value_analysis",
       patterns |-> <<"value", "worth", "price", "estimate", "appraisal",
                      "how much", "market value", "arv">>],
      [query_type |-> "property_details",
       patterns |-> <<"details", "information", "specs", "features",
                      "tell me about", "what is", "condition">>],
      [query_type |-> "owner_info",
       patterns |-> <<"owner", "who owns", "seller", "contact",
                      "owned by", "ownership">>],
      [query_type |-> "occupancy",
       patterns |-> <<"vacant", "occupied", "live in", "tenant",
                      "occupancy", "living in">>],
      [query_type |-> "distressed",
       patterns |-> <<"distressed", "foreclosure", "tax lien", "motivated",
                      "behind payments", "delinquent", "problems">>],
      [query_type |-> "market",
       patterns |-> <<"market", "trends", "appreciation", "comps",
                      "comparable", "analysis">>],
      [query_type |-> "investment",
       patterns |-> <<"investment", "roi", "return", "profit",
                      "cash flow", "rental", "flip">>]>>

\* any(pattern in query for pattern in patterns)
AnyPatternIn(patterns, query) ==
    \E j \in 1..Len(patterns) : Contains(query, patterns[j])

RECURSIVE AnalyzeLoopLastMatch(_, _, _)
\* the loop of analyze_query_type without its early return: the last
\* matching type wins
AnalyzeLoopLastMatch(query, i, found) ==
    IF i > Len(QueryPatterns) THEN found
    ELSE IF AnyPatternIn(QueryPatterns[i].patterns, query)
         THEN AnalyzeLoopLastMatch(query, i + 1, QueryPatterns[i].query_type)
         ELSE AnalyzeLoopLastMatch(query, i + 1, found)

RECURSIVE AnalyzeLoop(_, _, _)
\* for query_type, patterns in self.query_patterns.items(): the first type
\* with a matching pattern is returned; 'comprehensive' after the loop
AnalyzeLoop(query, i, found) ==
    IF i > Len(QueryPatterns) THEN found
    ELSE IF AnyPatternIn(QueryPatterns[i].patterns, query)
         THEN QueryPatterns[i].query_type
         ELSE AnalyzeLoop(query, i + 1, found)

\* RealEstateAgent.analyze_query_type
AnalyzeQueryType(query) == AnalyzeLoop(Lower(query), 1, "comprehensive")

---------------------------------------------------------------------------
(* RealEstateChatInterface.process_query (src/chat_interface.py) *)

\* RealEstateChatInterface._handle_value_query: its response lines
HandleValueQueryLines ==
    <<"Value Analysis:",
      "------------------------------",
      "",
      "Current Valuation:",
      "- Estimated Value: $275,000",
      "- Confidence Score: 85%",
      "",
      "Market Comparison:",
      "- Neighborhood Avg: $265,000",
      "- Price per Sqft: $145",
      "",
      "Historical Trends:",
      "- 1 Year Change: +5.2%",
      "- 5 Year Change: +15.8%">>

\* RealEstateChatInterface._handle_property_details: its response lines
HandlePropertyDetailsLines ==
    <<"Property Details:",
      "------------------------------",
      "",
      "Basic Information:",
      "- 3 Bedrooms",
      "- 2 Bathrooms",
      "- 1,850 sqft",
      "- Built in 1985",
      "",
      "Construction Details:",
      "- Foundation: Concrete Slab",
      "- Roof: Asphalt Shingle (2015)",
      "- HVAC: Central (2018)",
      "",
      "Property Features:",
      "- Garage: 2 Car",
      "- Lot Size: 0.25 acres",
      "- Zoning: Residential">>

\* RealEstateChatInterface._handle_owner_query: its response lines
HandleOwnerQueryLines ==
    <<"Owner Analysis:",
      "------------------------------",
      "",
      "Owner Profile:",
      "- Current Owner: John Smith",
      "- Ownership Length: 8 years",
      "- Property Type: Primary Residence",
      "",
      "Financial Status:",
      "- Estimated Equity: 45%",
      "- Tax Status: Current",
      "- Recent Liens: None",
      "",
      "Portfolio Analysis:",
      "- Other Properties: 1",
      "- Investment Profile: Owner-Occupant">>

\* RealEstateChatInterface._handle_occupancy_query: its response lines
HandleOccupancyQueryLines ==
    <<"Occupancy Analysis:",
      "------------------------------",
      "",
      "Current Status:",
      "- Status: Occupied",
      "- Type: Owner-Occupied",
      "- Last Verified: 2024-03-01",
      "",
      "Utility Activity:",
      "- Electric: Active",
      "- Water: Active",
      "- Gas: Active",
      "",
      "Risk Assessment:",
      "- Vacancy Risk: Low",
      "- Occupancy Score: 95/100">>

\* RealEstateChatInterface._handle_distressed_query: its response lines
HandleDistressedQueryLines ==
    <<"Distressed Property Analysis:",
      "------------------------------",
      "",
      "Property Status:",
      "- Pre-foreclosure Stage",
      "- Days in Default: 120",
      "- Auction Date: None set",
      "",
      "Financial Analysis:",
      "- Outstanding Balance: $185,000",
      "- Estimated Value: $275,000",
      "- Potential Equity: $90,000",
      "",
      "Lead Score Analysis:",
      "- Financial Distress: 85/100",
      "- Time Pressure: 75/100",
      "- Property Condition: 65/100",
      "- Market Position: 80/100",
      "- Overall Score: 78/100",
      "",
      "Contact History:",
      "- Last Contact: None",
      "- Response Rate: N/A",
      "",
      "Property Condition:",
      "- Major Repairs Needed: No",
      "- Estimated Repair Cost: $15,000",
      "",
      "Market Context:",
      "- Days on Market: N/A",
      "- Market Activity: High",
      "- Buyer Interest: Strong",
      "",
      "Action Plan:",
      "1. Priority: High",
      "2. Recommended Contact: Direct Mail + Phone",
      "3. Suggested Offer Range: $200,000 - $225,000",
      "4. Next Steps: Schedule property inspection">>

\* RealEstateChatInterface._handle_market_analysis: its response lines
HandleMarketAnalysisLines ==
    <<"Market Analysis Report:",
      "------------------------------",
      "",
      "Price Trends & Velocity:",
      "- Median Price: $265,000",
      "- YoY Change: +6.2%",
      "- Avg Days on Market: 28",
      "",
      "Market Conditions:",
      "- Inventory Level: Low",
      "- Buyer Demand: High",
      "- Market Type: Seller's Market",
      "",
      "Neighborhood Stats:",
      "- Population Growth: +2.1%",
      "- Employment Rate: 96%",
      "- School Rating: 8/10">>

\* RealEstateChatInterface._handle_investment_analysis: its response lines
HandleInvestmentAnalysisLines ==
    <<"Investment Analysis:",
      "------------------------------",
      "",
      "Purchase Analysis:",
      "- Current Ask: $275,000",
      "- ARV: $325,000",
      "- Repair Estimate: $25,000",
      "",
      "Repair Details:",
      "- Major: HVAC ($8,000)",
      "- Moderate: Kitchen ($12,000)",
      "- Minor: Paint/Carpet ($5,000)",
      "",
      "Market Position:",
      "- Comps Range: $315k - $335k",
      "- Price per Sqft: $145",
      "",
      "Returns:",
      "- MAO: $240,000",
      "- Potential Profit: $35,000",
      "- ROI: 18.2%",
      "",
      "Exit Strategy:",
      "1. Fix & Flip: Recommended",
      "2. Wholesale: Viable",
      "3. Buy & Hold: Consider">>

\* the _handle_* coroutines with the market and investment reports exchanged
HandlerLinesSwapped ==
    [value_analysis |-> HandleValueQueryLines,
     property_details |-> HandlePropertyDetailsLines,
     owner_info |-> HandleOwnerQueryLines,
     occupancy |-> HandleOccupancyQueryLines,
     distressed |-> HandleDistressedQueryLines,
     market |-> HandleInvestmentAnalysisLines,
     investment |-> HandleMarketAnalysisLines]

\* the _handle_* coroutines: each returns its fixed report
HandlerLines ==
    [value_analysis |-> HandleValueQueryLines,
     property_details |-> HandlePropertyDetailsLines,
     owner_info |-> HandleOwnerQueryLines,
     occupancy |-> HandleOccupancyQueryLines,
     distressed |-> HandleDistressedQueryLines,
     market |-> HandleMarketAnalysisLines,
     investment |-> HandleInvestmentAnalysisLines]

\* what a call of process_query hands to its caller: a dict (status, and
\* message or response), or an exception; handler names the _handle_*
\* coroutine that ran, "" when none did
Success(handler) ==
    [raised |-> FALSE, status |-> "success", message |-> "", handler |-> handler,
     response |-> HandlerLines[handler]]

Failure(message) ==
    [raised |-> FALSE, status |-> "error", message |-> message, handler |-> "",
     response |-> << >>]

Propagated(exc) ==
    [raised |-> TRUE, status |-> "", message |-> exc, handler |-> "", response |-> << >>]

\* the if/elif chain of process_query on the lowercased, stripped query
Dispatch(query) ==
    IF Contains(query, "value") \/ Contains(query, "worth")
    THEN Success("value_analysis")
    ELSE IF Contains(query, "detail") \/ Contains(query, "info")
    THEN Success("property_details")
    ELSE IF Contains(query, "owner") \/ Contains(query, "who owns")
    THEN Success("owner_info")
    ELSE IF Contains(query, "vacant") \/ Contains(query, "occupancy")
    THEN Success("occupancy")
    ELSE IF Contains(query, "distressed") \/ Contains(query, "foreclosure")
    THEN Success("distressed")
    ELSE IF Contains(query, "market") \/ Contains(query, "trend")
    THEN Success("market")
    ELSE IF Contains(query, "investment") \/ Contains(query, "roi") \/ Contains(query, "offer")
    THEN Success("investment")
    ELSE Failure("Query type not recognized. Please try rephrasing your question.")

\* query.lower() on an argument that is no string
AttributeError == "'NoneType' object has no attribute 'lower'"

\* the try block: the dict it returns, or the exception it raises
TryBlock(arg) ==
    IF arg.isStr
    THEN [raised |-> FALSE, value |-> Dispatch(Strip(Lower(arg.query))), exc |-> ""]
    ELSE [raised |-> TRUE, value |-> NoResult, exc |-> AttributeError]

\* process_query without its except clause: the exception reaches the caller
ProcessQueryNoExcept(arg) ==
    LET body == TryBlock(arg)
    IN  IF body.raised THEN Propagated(body.exc) ELSE body.value

\* RealEstateChatInterface.process_query
ProcessQuery(arg) ==
    LET body == TryBlock(arg)
    IN  IF body.raised
        THEN Failure("Error processing query: " \o body.exc)
        ELSE body.value

---------------------------------------------------------------------------
(* The chat side's state machine *)

\* the words queries are made of
ChatWords ==
    {"value", "Worth", "price", "details", "info", "owner", "who", "owns",
     "vacant", "motivated", "foreclosure", "market", "trends", "heroic",
     "offer", "hello", "there", "what", "is"}

\* the queries of tests/test_chat.py
TestQueries ==
    {"what is the value of 123 Main St Bessemer?",
     "show me property details for 456 Oak Ave",
     "who owns 123 Main St?",
     "is 123 Main St vacant?",
     "find distressed properties with high equity in Bessemer",
     "show me market trends for Bessemer",
     "what's the maximum offer for 123 Main St?",
     "show me vacant properties with motivated sellers in 35020"}

\* the queries: one word, or two with a space between them, and the tests' queries
ChatQueries == ChatWords \cup {a \o " " \o b : a, b \in ChatWords} \cup TestQueries

\* the arguments of process_query: the queries, and None
ChatArgs ==
    {[isStr |-> TRUE, query |-> q] : q \in ChatQueries}
        \cup {[isStr |-> FALSE, query |-> ""]}

\* analyze_query_type and process_query of each of those arguments, computed once
IntentOf == [q \in ChatQueries |-> AnalyzeQueryType(q)]
ResultOf == [arg \in ChatArgs |-> ProcessQuery(arg)]

\* a call of analyze_query_type(query)
Analyze(query) ==
    /\ call' = [method |-> "analyze_query_type", isStr |-> TRUE, query |-> query]
    /\ intent' = IntentOf[query]
    /\ result' = NoResult
    /\ UNCHANGED <<cacheVars, keyCall, scored>>

\* a call of process_query(arg), awaited to its end
Process(arg) ==
    /\ call' = [method |-> "process_query", isStr |-> arg.isStr, query |-> arg.query]
    /\ intent' = NoIntent
    /\ result' = ResultOf[arg]
    /\ UNCHANGED <<cacheVars, keyCall, scored>>

NextChat ==
    \/ \E query \in ChatQueries : Analyze(query)
    \/ \E arg \in ChatArgs : Process(arg)

SpecChat == Init /\ [][NextChat]_vars

---------------------------------------------------------------------------
(* Properties of the classifier and of process_query *)

\* the claims' fixed order of the seven categories
CategoryOrder ==
    <<"value_analysis", "property_details", "owner_info", "occupancy",
      "distressed", "market", "investment">>

\* the keywords analyze_query_type knows for a category
AgentKeywords ==
    [c \in {CategoryOrder[i] : i \in 1..Len(CategoryOrder)} |->
        UNION {{QueryPatterns[i].patterns[j] : j \in 1..Len(QueryPatterns[i].patterns)} :
               i \in {n \in 1..Len(QueryPatterns) : QueryPatterns[n].query_type = c}}]

\* the keywords process_query tests for a category
ChatKeywords ==
    [value_analysis |-> {"value", "worth"},
     property_details |-> {"detail", "info"},
     owner_info |-> {"owner", "who owns"},
     occupancy |-> {"vacant", "occupancy"},
     distressed |-> {"distressed", "foreclosure"},
     market |-> {"market", "trend"},
     investment |-> {"investment", "roi", "offer"}]

\* the positions in the fixed order of the categories with a keyword in the
\* lowercased query
MatchingCategories(query, keywords) ==
    {i \in 1..Len(CategoryOrder) :
        \E kw \in keywords[CategoryOrder[i]] : Contains(Lower(query), kw)}

\* the earliest such category, "" when there is none
EarliestCategory(query, keywords) ==
    LET m == MatchingCategories(query, keywords)
    IN  IF m = {} THEN ""
        ELSE CategoryOrder[CHOOSE i \in m : \A j \in m : i <= j]

\* C8: the intent analyze_query_type returns, and the handler process_query
\* runs, is the earliest category in the fixed order with one of its keywords
\* in the lowercased query (each method with the keywords it knows).
ClassifierPriority ==
    /\ (call.method = "analyze_query_type"
        /\ EarliestCategory(call.query, AgentKeywords) # "")
          => intent = EarliestCategory(call.query, AgentKeywords)
    /\ (call.method = "process_query" /\ call.isStr
        /\ EarliestCategory(call.query, ChatKeywords) # "")
          => /\ result.status = "success"
             /\ result.handler = EarliestCategory(call.query, ChatKeywords)

\* C8 witness: a query with 'owner' before 'value' in it has been classified
\* value_analysis.
ClassifierPriorityWitness ==
    /\ call.method = "analyze_query_type"
    /\ call.query = "owner value"
    /\ intent = "value_analysis"

\* a query with no keyword of any category, in either method's table
NoKnownKeyword(query) ==
    /\ EarliestCategory(query, AgentKeywords) = ""
    /\ EarliestCategory(query, ChatKeywords) = ""

\* C9: a query with none of the known keywords is classified comprehensive
\* and process_query handles it without reporting an error.
FallbackComprehensive ==
    /\ (call.method = "analyze_query_type" /\ NoKnownKeyword(call.query))
          => intent = "comprehensive"
    /\ (call.method = "process_query" /\ call.isStr /\ NoKnownKeyword(call.query))
          => result.status # "error"

\* C10: process_query never raises: it returns a dict whose status is success
\* or error, and an exception raised in its try block comes back as status
\* error with a message.
NeverRaises ==
    call.method = "process_query" =>
        /\ ~result.raised
        /\ result.status \in {"success", "error"}
        /\ result.status = "error" => result.message # ""
        /\ ~call.isStr =>
              /\ result.status = "error"
              /\ result.message = "Error processing query: " \o AttributeError

\* C10 witness: process_query was called with an argument whose lower()
\* raises, and returned status error.
NeverRaisesWitness ==
    /\ call.method = "process_query"
    /\ ~call.isStr
    /\ ~result.raised
    /\ result.status = "error"

\* the intents whose result carries a lead score
ScoringIntents == {"distressed", "investment", "occupancy"}

\* the lead score attached to a result dict, if any
LeadScoreOf(r) == IF "lead_score" \in DOMAIN r THEN Some(r.lead_score) ELSE None

\* C11: a process_query call whose intent is distressed, investment or
\* occupancy has fetched the property record through the DataManager (the
\* last DataManager call returned from a fetch) and carries a lead score
\* computed from it; for 'is 123 Main St vacant?' the intent is occupancy and
\* the lead score's time_pressure is at least 20.
HandleScoresFetchedRecord ==
    (call.method = "process_query" /\ result.status = "success"
        /\ result.handler \in ScoringIntents)
    => /\ ret.op = "fetch" /\ ret.kind = "return"
       /\ LeadScoreOf(result) # None
       /\ call.query = "is 123 Main St vacant?"
            => /\ result.handler = "occupancy"
               /\ LeadScoreOf(result)[1].component_scores.time_pressure >= 20

---------------------------------------------------------------------------
(* The address parser's state machine *)

\* the words queries to the parser are made of: numbers, names, suffixes
ParseWords == {"12", "7", "Main", "St", "road", "al"}

MaxWords == 3

\* the queries of n words, one space between two words
RECURSIVE WordQueries(_)
WordQueries(n) ==
    IF n = 0 THEN {""}
    ELSE IF n = 1 THEN ParseWords
    ELSE {q \o " " \o w : q \in WordQueries(n - 1), w \in ParseWords}

\* the queries parsed: up to MaxWords words, and longer ones with a whole
\* address, with one and with three words after the suffix, with a second
\* suffix, with blanks and tabs around the words
ParseQueries ==
    UNION {WordQueries(n) : n \in 0..MaxWords}
        \cup {"123 main st bessemer al 35020",
              "123 Main St Bessemer AL",
              "123 main st bessemer",
              "is 45 Oak Ave vacant",
              "st 12 road al 7",
              "Main St 12 road al",
              "12 Elm Road Hoover al zip",
              "  123  Main\tSt   Bessemer  AL  35020 ",
              "what is the value of 123 Main St Bessemer?"}

\* _parse_address of each query, computed once
ParseTable == [query \in ParseQueries |-> ParseAddress(query)]

\* a call of _parse_address(query)
Parse(query) ==
    /\ keyCall' = [method |-> "parse", query |-> query, address |-> ParseTable[query],
                   key |-> ""]
    /\ UNCHANGED <<cacheVars, chatVars, scored>>

NextParse == \E query \in ParseQueries : Parse(query)

SpecParse == Init /\ [][NextParse]_vars

\* the lowercased whitespace-separated tokens of a query
Tokens(query) == Split(Lower(query))

\* the positions (from 1) of the street-suffix tokens
SuffixPositions(tokens) == {i \in 1..Len(tokens) : tokens[i] \in StreetSuffixes}

\* the position the scan stops at: the first suffix token, 0 when there is none
StopPosition(tokens) ==
    IF SuffixPositions(tokens) = {} THEN 0
    ELSE CHOOSE i \in SuffixPositions(tokens) : \A j \in SuffixPositions(tokens) : i <= j

\* the purely numeric tokens met before the scan stops
NumbersScanned(tokens) ==
    {i \in 1..Len(tokens) :
        /\ IsDigit(tokens[i])
        /\ StopPosition(tokens) = 0 \/ i < StopPosition(tokens)}

\* C23: _parse_address always returns an address of five fields;
\* street_number is the first purely numeric token met before the scan stops
\* (empty when there is none); the scan stops at the first street-suffix
\* token and street_name is then the tokens from index 1 up to and including
\* it, joined by spaces; with no suffix token street_name, city, state and
\* zip are empty.
ParseScansToSuffix ==
    keyCall.method = "parse"
    => LET tokens == Tokens(keyCall.query)
           stop == StopPosition(tokens)
           numbers == NumbersScanned(tokens)
           address == keyCall.address
       IN  /\ DOMAIN address = DOMAIN EmptyAddress
           /\ address.street_number
                = IF numbers = {} THEN ""
                  ELSE tokens[CHOOSE i \in numbers : \A j \in numbers : i <= j]
           /\ stop > 0 => address.street_name = Join(" ", SubSeq(tokens, 2, stop))
           /\ stop = 0 => /\ address.street_name = ""
                          /\ address.city = ""
                          /\ address.state = ""
                          /\ address.zip = ""

\* C23 witness: a query with a number after its first suffix and a second
\* suffix was parsed: the number and the second suffix were not read.
ParseScansToSuffixWitness ==
    /\ keyCall.method = "parse"
    /\ keyCall.query = "Main St 12 road al"
    /\ keyCall.address.street_number = ""
    /\ keyCall.address.street_name = "st"

\* C24: the tokens after the first street-suffix token are placed by
\* position: the first is the city, the second the state, and the third is
\* the zip exactly when it is purely numeric, however many of them there are
\* (one token alone is the city).
RemainingByPosition ==
    (keyCall.method = "parse" /\ StopPosition(Tokens(keyCall.query)) > 0)
    => LET tokens == Tokens(keyCall.query)
           remaining == SubSeq(tokens, StopPosition(tokens) + 1, Len(tokens))
           address == keyCall.address
       IN  /\ address.city = IF Len(remaining) >= 1 THEN remaining[1] ELSE ""
           /\ address.state = IF Len(remaining) >= 2 THEN remaining[2] ELSE ""
           /\ address.zip = IF Len(remaining) >= 3 /\ IsDigit(remaining[3])
                            THEN remaining[3] ELSE ""

---------------------------------------------------------------------------
(* RealEstateAgent: lead scoring *)

\* d.get(key, default)
DictGet(d, key, default) == IF key \in DOMAIN d THEN d[key] ELSE default

\* x in a list
InList(x, list) == \E i \in 1..Len(list) : list[i] = x

Min(a, b) == IF a < b THEN a ELSE b
Max(a, b) == IF a > b THEN a ELSE b

\* what an expression or a method comes to: a value, or an exception
Ok(v) == [raised |-> FALSE, exc |-> "", value |-> v]
Err(e) == [raised |-> TRUE, exc |-> e, value |-> 0]

TypeError == "'>' not supported between instances of 'str' and 'int'"
NameError == "name 'timedelta' is not defined"

\* v > n for an int n: a str on the left raises TypeError
GreaterThan(v, n) ==
    IF v.type = "int" THEN Ok(v.int > n) ELSE Err(TypeError)

\* the same comparison with >= in place of >
GreaterThanInclusive(v, n) ==
    IF v.type = "int" THEN Ok(v.int >= n) ELSE Err(TypeError)

\* _calculate_financial_distress with >= where the code compares with >
CalculateFinancialDistressInclusive(data) ==
    LET indicators == DictGet(data, "distress_indicators", << >>)
        tax == IF InList("tax_delinquent", indicators) THEN 30 ELSE 0
        mortgage == IF InList("mortgage_default", indicators) THEN 30 ELSE 0
        owner_info == DictGet(data, "owner_info", << >>)
        equity == DictGet(owner_info, "estimated_equity", PyInt(0))
        time_owned == DictGet(owner_info, "time_owned", PyInt(0))
        over50 == GreaterThanInclusive(equity, 50)
        over30 == GreaterThanInclusive(equity, 30)
        over10 == GreaterThanInclusive(time_owned, 10)
    IN  IF over50.raised THEN Err(over50.exc)
        ELSE IF (~over50.value) /\ over30.raised THEN Err(over30.exc)
        ELSE IF over10.raised THEN Err(over10.exc)
        ELSE Ok(Min(tax + mortgage
                    + (IF over50.value THEN 20 ELSE IF over30.value THEN 10 ELSE 0)
                    + (IF over10.value THEN 20 ELSE 0), 100))

\* RealEstateAgent._calculate_financial_distress
CalculateFinancialDistress(data) ==
    LET indicators == DictGet(data, "distress_indicators", << >>)
        tax == IF InList("tax_delinquent", indicators) THEN 30 ELSE 0
        mortgage == IF InList("mortgage_default", indicators) THEN 30 ELSE 0
        owner_info == DictGet(data, "owner_info", << >>)
        equity == DictGet(owner_info, "estimated_equity", PyInt(0))
        time_owned == DictGet(owner_info, "time_owned", PyInt(0))
        over50 == GreaterThan(equity, 50)
        over30 == GreaterThan(equity, 30)
        over10 == GreaterThan(time_owned, 10)
    IN  IF over50.raised THEN Err(over50.exc)
        ELSE IF (~over50.value) /\ over30.raised THEN Err(over30.exc)
        ELSE IF over10.raised THEN Err(over10.exc)
        ELSE Ok(Min(tax + mortgage
                    + (IF over50.value THEN 20 ELSE IF over30.value THEN 10 ELSE 0)
                    + (IF over10.value THEN 20 ELSE 0), 100))

\* RealEstateAgent._calculate_time_pressure
CalculateTimePressure(data) ==
    LET indicators == DictGet(data, "distress_indicators", << >>)
        foreclosure == IF InList("pre_foreclosure", indicators) THEN 40 ELSE 0
        vacancy == IF InList("vacant", indicators) THEN 20 ELSE 0
        days_on_market == DictGet(data, "days_on_market", 0)
        market_time == IF days_on_market > 180 THEN 20
                       ELSE IF days_on_market > 90 THEN 10 ELSE 0
        price_drops == DictGet(data, "price_drops", 0)
    IN  Min(foreclosure + vacancy + market_time + Min(price_drops * 5, 20), 100)

\* RealEstateAgent._calculate_property_condition; year is datetime.now().year
CalculatePropertyCondition(data, year) ==
    LET details == DictGet(data, "property_details", << >>)
        repairs_needed == DictGet(details, "repairs_needed", << >>)
        major_repairs == Len(DictGet(repairs_needed, "major", << >>))
        moderate_repairs == Len(DictGet(repairs_needed, "moderate", << >>))
        minor_repairs == Len(DictGet(repairs_needed, "minor", << >>))
        age == year - DictGet(details, "year_built", year)
    IN  Max(100 - major_repairs * 15 - moderate_repairs * 10 - minor_repairs * 5
                - (IF age > 50 THEN 20 ELSE IF age > 30 THEN 10 ELSE 0), 0)

\* current_price / arv < num / 10, for arv # 0
RatioBelow(current_price, arv, num) ==
    IF arv > 0 THEN 10 * current_price < num * arv ELSE 10 * current_price > num * arv

ZeroDivisionError == "division by zero"

\* a / b: the quotient is kept as the pair of its terms; b = 0 raises
Divide(a, b) == IF b = 0 THEN Err(ZeroDivisionError) ELSE Ok(<<a, b>>)

\* the score of the ratio and of the appreciation rate
RatioBonus(ratio) ==
    IF RatioBelow(ratio[1], ratio[2], 7) THEN 30
    ELSE IF RatioBelow(ratio[1], ratio[2], 8) THEN 20
    ELSE IF RatioBelow(ratio[1], ratio[2], 9) THEN 10
    ELSE 0

AppreciationBonus(data) ==
    LET market_data == DictGet(data, "market_data", << >>)
        appreciation == DictGet(market_data, "appreciation_rate", 0)
    IN  IF appreciation > 10 THEN 20 ELSE IF appreciation > 5 THEN 10 ELSE 0

\* _calculate_market_position without `if current_price and arv`: the ratio
\* is always computed
CalculateMarketPositionUnguarded(data) ==
    LET metrics == DictGet(data, "financial_metrics", << >>)
        current_price == DictGet(data, "price", 0)
        arv == DictGet(metrics, "arv", current_price)
        ratio == Divide(current_price, arv)
    IN  IF ratio.raised THEN Err(ratio.exc)
        ELSE Ok(Min(50 + RatioBonus(ratio.value) + AppreciationBonus(data), 100))

\* RealEstateAgent._calculate_market_position
CalculateMarketPosition(data) ==
    LET metrics == DictGet(data, "financial_metrics", << >>)
        current_price == DictGet(data, "price", 0)
        arv == DictGet(metrics, "arv", current_price)
    IN  IF current_price # 0 /\ arv # 0
        THEN LET ratio == Divide(current_price, arv)
             IN  IF ratio.raised THEN Err(ratio.exc)
                 ELSE Ok(Min(50 + RatioBonus(ratio.value) + AppreciationBonus(data), 100))
        ELSE Ok(Min(50 + AppreciationBonus(data), 100))

\* the weights are two-decimal literals; they are kept as hundredths
WeightScale == 100

\* the weights table of calculate_lead_score
AgentWeights ==
    [financial_distress |-> 35, time_pressure |-> 25,
     property_condition |-> 20, market_position |-> 20]

\* a table with property_condition brought to 0.25 and the rest left as it is
ChatWeightsUnbalanced ==
    [financial_distress |-> 35, time_pressure |-> 25,
     property_condition |-> 25, market_position |-> 20]

\* RealEstateChatInterface.lead_score_weights
ChatWeights ==
    [financial_distress |-> 30, time_pressure |-> 25,
     property_condition |-> 25, market_position |-> 20]

Factors == {"financial_distress", "time_pressure", "property_condition", "market_position"}

\* sum(scores[f] * weights[f]) over the factors scores has, in hundredths
RECURSIVE WeightedSumOver(_, _, _)
WeightedSumOver(fs, scores, weights) ==
    IF fs = {} THEN 0
    ELSE LET f == CHOOSE x \in fs : TRUE
         IN  scores[f] * weights[f] + WeightedSumOver(fs \ {f}, scores, weights)

WeightedSum(scores, weights) ==
    WeightedSumOver(DOMAIN weights \cap DOMAIN scores, scores, weights)

\* round(num / den) for den > 0: to the nearest integer, a tie to the even one
Round(num, den) ==
    LET q == num \div den
        r == num % den
    IN  IF 2 * r > den \/ (2 * r = den /\ q % 2 = 1) THEN q + 1 ELSE q

\* what a scorer method hands back: the lead score dict, or an exception
LeadReturned(lead) == [raised |-> FALSE, exc |-> "", lead |-> lead]
LeadRaised(exc) == [raised |-> TRUE, exc |-> exc, lead |-> << >>]

\* RealEstateAgent.calculate_lead_score; overall_score is held in hundredths
\* until it is rounded in the returned dict
CalculateLeadScore(property_data, year) ==
    LET fd == CalculateFinancialDistress(property_data)
        mp == CalculateMarketPosition(property_data)
    IN  IF fd.raised THEN LeadRaised(fd.exc)
        ELSE IF mp.raised THEN LeadRaised(mp.exc)
        ELSE LET scores ==
                     [financial_distress |-> fd.value,
                      time_pressure |-> CalculateTimePressure(property_data),
                      property_condition |-> CalculatePropertyCondition(property_data, year),
                      market_position |-> mp.value]
                 overall_score == WeightedSum(scores, AgentWeights)
             IN  LeadReturned(
                     [overall_score |-> Round(overall_score, WeightScale),
                      category |-> IF overall_score >= 80 * WeightScale THEN "Hot"
                                   ELSE IF overall_score >= 60 * WeightScale THEN "Warm"
                                   ELSE "Cold",
                      priority |-> IF overall_score >= 80 * WeightScale THEN 1
                                   ELSE IF overall_score >= 60 * WeightScale THEN 2
                                   ELSE 3,
                      component_scores |-> scores])

\* RealEstateChatInterface._calculate_lead_score
ChatCalculateLeadScore(metrics) ==
    Round(WeightedSum(metrics, ChatWeights), WeightScale)

\* the names bound in real_estate_agent.py: its imports and its class
AgentGlobals == {"Dict", "List", "Optional", "logging", "datetime", "RealEstateAgent"}

\* datetime.now().date() + timedelta(days=days): the name timedelta is looked
\* up when the expression is evaluated; dates are day numbers
FollowUpDate(today, days) ==
    IF "timedelta" \in AgentGlobals THEN Ok(today + days) ELSE Err(NameError)

ActionReturned(action) == [raised |-> FALSE, exc |-> "", action |-> action]
ActionRaised(exc) == [raised |-> TRUE, exc |-> exc, action |-> << >>]

\* RealEstateAgent.recommend_next_action
RecommendNextAction(lead_score, today) ==
    LET category == lead_score.category
        plan == IF category = "Hot"
                THEN [next_action |-> "Direct Mail + Phone Call", days |-> 1, priority |-> 1]
                ELSE IF category = "Warm"
                THEN [next_action |-> "Direct Mail", days |-> 7, priority |-> 2]
                ELSE [next_action |-> "Add to Monthly Mailer", days |-> 30, priority |-> 3]
        follow_up_date == FollowUpDate(today, plan.days)
    IN  IF follow_up_date.raised THEN ActionRaised(follow_up_date.exc)
        ELSE ActionReturned(
                 [next_action |-> plan.next_action,
                  follow_up_date |-> follow_up_date.value,
                  priority |-> plan.priority])

---------------------------------------------------------------------------
(* The scoring side's state machine *)

\* the values a property record's sections take
IndicatorLists ==
    {<< >>, <<"vacant">>, <<"tax_delinquent", "vacant">>,
     <<"tax_delinquent", "mortgage_default", "pre_foreclosure", "vacant">>}

OwnerInfos ==
    {<< >>, [estimated_equity |-> PyInt(45)],
     [estimated_equity |-> PyInt(45), time_owned |-> PyInt(8)]}
        \cup {[estimated_equity |-> PyInt(e), time_owned |-> PyInt(t)] :
                e \in {30, 31, 50, 51}, t \in {10, 11}}

DaysOnMarket == {90, 91, 181}
PriceDrops == {-1, 1, 5}

PropertyDetails == {MockRecord.property_details}

\* price and financial_metrics together
Prices ==
    {[price |-> 85], [price |-> 85, financial_metrics |-> [arv |-> 100]],
     [price |-> MockRecord.price, financial_metrics |-> MockRecord.financial_metrics]}

\* a key that may be absent from the dict
Optional(key, values) == {<< >>} \cup {key :> v : v \in values}

\* property_details with the year and the repair lists present or not; the
\* last one is the skeleton's year_built of _process_api_response
RepairLists ==
    {<< >>, [major |-> <<"Roof replacement">>],
     [major |-> <<"Roof replacement", "HVAC system upgrade">>,
      moderate |-> <<"Kitchen renovation">>, minor |-> <<"Interior paint">>],
     [major |-> <<"Roof", "HVAC", "Foundation", "Plumbing", "Electrical", "Framing">>,
      minor |-> <<"Interior paint", "Landscaping">>],
     [major |-> <<"Roof", "HVAC", "Foundation", "Plumbing", "Electrical", "Framing",
                  "Sewer">>]}

YearsBuilt == {0, 1974, 1975, 1985, 1994, 1995, 2006, 2025}

ConditionDetails ==
    {y @@ r : y \in Optional("year_built", YearsBuilt),
              r \in Optional("repairs_needed", RepairLists)}

\* price and arv around the ratios 0.7, 0.8 and 0.9, zero and negative
PricePoints == {0, 69, 70, 79, 80, 89, 90, -70}
ArvPoints == {0, 100, -100}

MarketPrices ==
    {p @@ a : p \in Optional("price", PricePoints),
              a \in Optional("financial_metrics", {<< >>} \cup
                                {[arv |-> v] : v \in ArvPoints})}

AppreciationRates == {5, 6, 10, 11}

MarketData ==
    Optional("market_data", {<< >>} \cup {[appreciation_rate |-> v] : v \in AppreciationRates})

\* the records with numbers in their numeric fields: the sections that feed
\* the financial and the time score together, the property details alone,
\* the prices and the market data alone
ScoreRecords ==
    {i @@ o @@ d @@ p @@ pd @@ pr :
        i \in Optional("distress_indicators", IndicatorLists),
        o \in Optional("owner_info", OwnerInfos),
        d \in Optional("days_on_market", DaysOnMarket),
        p \in Optional("price_drops", PriceDrops),
        pd \in Optional("property_details", PropertyDetails),
        pr \in {<< >>} \cup Prices}
    \cup {pd : pd \in Optional("property_details", ConditionDetails)}
    \cup {pr @@ md : pr \in MarketPrices, md \in MarketData}

\* datetime.now().year, and datetime.now().date() as a day number
Years == {2025, 2036}
Days == {0, 30}

\* the metrics _calculate_lead_score is given: some of the factors, each 0..100
ChatMetrics ==
    UNION {[fs -> {0, 50, 100}] : fs \in SUBSET Factors}

\* os.getenv('ATTOM_API_KEY')
ApiKeys == {"", "key"}

ScoredBy(method, arg, clock, weights) ==
    [NoScored EXCEPT !.method = method, !.arg = arg, !.clock = clock,
                     !.weights = weights]

\* the argument a caller holds before it calls the scorer: a property
\* record (one of the records above, or the one the data source hands back),
\* or a metrics dict; or nothing yet
InitInputs ==
    scored \in {NoScored}
        \cup {ScoredBy("property_data", data, 0, << >>) :
                data \in ScoreRecords \cup {ProcessApiResponse}}
        \cup {ScoredBy("metrics", metrics, 0, << >>) : metrics \in ChatMetrics}

\* RealEstateChatInterface.__init__: no key in the environment raises
\* ValueError, otherwise lead_score_weights is set
ConstructChat(api_key) ==
    /\ scored.method = "none"
    /\ scored' =
          IF api_key = ""
          THEN [ScoredBy("RealEstateChatInterface", << >>, 0, << >>) EXCEPT
                    !.raised = TRUE,
                    !.exc = "ATTOM API key not found in environment variables"]
          ELSE ScoredBy("RealEstateChatInterface", << >>, 0, ChatWeights)
    /\ UNCHANGED <<cacheVars, keyCall, chatVars>>

\* a call of _calculate_financial_distress on the record held
ScoreFinancialDistress ==
    /\ scored.method = "property_data"
    /\ LET out == CalculateFinancialDistress(scored.arg)
       IN  scored' = [ScoredBy("_calculate_financial_distress", scored.arg, 0, << >>)
                         EXCEPT !.raised = out.raised, !.exc = out.exc,
                                !.value = out.value]
    /\ UNCHANGED <<cacheVars, keyCall, chatVars>>

\* a call of _calculate_time_pressure on the record held
ScoreTimePressure ==
    /\ scored.method = "property_data"
    /\ scored' = [ScoredBy("_calculate_time_pressure", scored.arg, 0, << >>) EXCEPT
                     !.value = CalculateTimePressure(scored.arg)]
    /\ UNCHANGED <<cacheVars, keyCall, chatVars>>

\* a call of _calculate_property_condition on the record held, in the year year
ScorePropertyCondition(year) ==
    /\ scored.method = "property_data"
    /\ scored' = [ScoredBy("_calculate_property_condition", scored.arg, year, << >>)
                     EXCEPT !.value = CalculatePropertyCondition(scored.arg, year)]
    /\ UNCHANGED <<cacheVars, keyCall, chatVars>>

\* a call of _calculate_market_position on the record held
ScoreMarketPosition ==
    /\ scored.method = "property_data"
    /\ LET out == CalculateMarketPosition(scored.arg)
       IN  scored' = [ScoredBy("_calculate_market_position", scored.arg, 0, << >>)
                         EXCEPT !.raised = out.raised, !.exc = out.exc,
                                !.value = out.value]
    /\ UNCHANGED <<cacheVars, keyCall, chatVars>>

\* a call of calculate_lead_score on the record held, in the year year
Score(year) ==
    /\ scored.method = "property_data"
    /\ LET out == CalculateLeadScore(scored.arg, year)
       IN  scored' = [ScoredBy("calculate_lead_score", scored.arg, year, AgentWeights)
                         EXCEPT !.raised = out.raised, !.exc = out.exc, !.lead = out.lead]
    /\ UNCHANGED <<cacheVars, keyCall, chatVars>>

\* a call of recommend_next_action on the lead score just computed
Recommend(today) ==
    /\ scored.method = "calculate_lead_score"
    /\ ~scored.raised
    /\ LET out == RecommendNextAction(scored.lead, today)
       IN  scored' = [ScoredBy("recommend_next_action", scored.lead, today, << >>) EXCEPT
                         !.raised = out.raised, !.exc = out.exc, !.action = out.action]
    /\ UNCHANGED <<cacheVars, keyCall, chatVars>>

\* a call of RealEstateChatInterface._calculate_lead_score on the metrics held
ChatScore ==
    /\ scored.method = "metrics"
    /\ scored' = [ScoredBy("_calculate_lead_score", scored.arg, 0, ChatWeights) EXCEPT
                     !.value = ChatCalculateLeadScore(scored.arg)]
    /\ UNCHANGED <<cacheVars, keyCall, chatVars>>

NextScore ==
    \/ \E api_key \in ApiKeys : ConstructChat(api_key)
    \/ ScoreFinancialDistress
    \/ ScoreTimePressure
    \/ \E year \in Years : ScorePropertyCondition(year)
    \/ ScoreMarketPosition
    \/ \E year \in Years : Score(year)
    \/ \E today \in Days : Recommend(today)
    \/ ChatScore

\* nothing else has been called; the caller holds its argument
InitScoring == InitCache /\ InitKey /\ InitChat /\ InitInputs

SpecScore == InitScoring /\ [][NextScore]_vars

---------------------------------------------------------------------------
(* Properties of the scoring side *)

\* 100 times the weighted sum 0.35 fd + 0.25 tp + 0.20 pc + 0.20 mp
FixedWeightSum(scores) ==
    35 * scores.financial_distress + 25 * scores.time_pressure
        + 20 * scores.property_condition + 20 * scores.market_position

\* n is an integer nearest to hundredths / 100
NearestInteger(n, hundredths) ==
    /\ 2 * (100 * n - hundredths) <= 100
    /\ 2 * (hundredths - 100 * n) <= 100

ComponentsInRange(scores) ==
    DOMAIN scores = Factors /\ \A f \in Factors : scores[f] \in 0..100

\* C12: both places that combine the four component scores into an overall
\* score (calculate_lead_score of the agent, _calculate_lead_score of the chat
\* interface) return the weighted sum with weights 0.35, 0.25, 0.20, 0.20
\* rounded to the nearest integer, an integer in 0..100 when the components
\* are in 0..100.
FixedWeightsEverywhere ==
    /\ (scored.method = "calculate_lead_score" /\ ~scored.raised
            /\ ComponentsInRange(scored.lead.component_scores))
       => /\ NearestInteger(scored.lead.overall_score,
                            FixedWeightSum(scored.lead.component_scores))
          /\ scored.lead.overall_score \in 0..100
    /\ (scored.method = "_calculate_lead_score" /\ ComponentsInRange(scored.arg))
       => /\ NearestInteger(scored.value, FixedWeightSum(scored.arg))
          /\ scored.value \in 0..100

\* the sum of a weights table, in hundredths
WeightTotal(weights) ==
    weights.financial_distress + weights.time_pressure
        + weights.property_condition + weights.market_position

CategoryBoundary ==
    (scored.method = "calculate_lead_score" /\ ~scored.raised)
    => LET lead == scored.lead
       IN  /\ lead.overall_score >= 80 => (lead.category = "Hot" /\ lead.priority = 1)
           /\ lead.overall_score \in 60..79
                => (lead.category = "Warm" /\ lead.priority = 2)
           /\ lead.overall_score < 60 => (lead.category = "Cold" /\ lead.priority = 3)

\* C15: recommend_next_action always hands back an action, and the action
\* is fixed by the category: Hot gives 'Direct Mail + Phone Call', today + 1
\* day, priority 1; Warm gives 'Direct Mail', today + 7 days, priority 2; Cold
\* gives 'Add to Monthly Mailer', today + 30 days, priority 3.
ActionFollowsCategory ==
    scored.method = "recommend_next_action"
    => /\ ~scored.raised
       /\ LET category == scored.arg.category
              today == scored.clock
          IN  /\ category = "Hot"
                   => scored.action = [next_action |-> "Direct Mail + Phone Call",
                                       follow_up_date |-> today + 1, priority |-> 1]
              /\ category = "Warm"
                   => scored.action = [next_action |-> "Direct Mail",
                                       follow_up_date |-> today + 7, priority |-> 2]
              /\ category = "Cold"
                   => scored.action = [next_action |-> "Add to Monthly Mailer",
                                       follow_up_date |-> today + 30, priority |-> 3]

\* a lead score dict as calculate_lead_score returns it
IsLeadScore(lead) ==
    /\ DOMAIN lead = {"overall_score", "category", "priority", "component_scores"}
    /\ DOMAIN lead.component_scores = Factors

\* C16: calculate_lead_score returns a lead score for every property record,
\* whichever sections and fields it lacks, the record the data source hands
\* back through fetch_property_data included.
ScoringNeverFails ==
    scored.method = "calculate_lead_score"
    => (~scored.raised /\ IsLeadScore(scored.lead))

\* the distress indicators of a record, as a set
IndicatorSet(data) ==
    LET indicators == DictGet(data, "distress_indicators", << >>)
    IN  {indicators[i] : i \in 1..Len(indicators)}

\* a numeric field of owner_info, 0 when the section or the field is absent
OwnerNumber(data, field) ==
    DictGet(DictGet(data, "owner_info", << >>), field, PyInt(0)).int

\* the record's estimated_equity and time_owned are numbers, or absent
NumericOwnerInfo(data) ==
    /\ DictGet(DictGet(data, "owner_info", << >>), "estimated_equity", PyInt(0)).type = "int"
    /\ DictGet(DictGet(data, "owner_info", << >>), "time_owned", PyInt(0)).type = "int"

\* C19: for a record whose estimated_equity and time_owned are numbers (0
\* when absent), financial_distress is min(100, 30 if tax_delinquent is an
\* indicator + 30 if mortgage_default is one + (20 if estimated_equity > 50,
\* else 10 if estimated_equity > 30) + 20 if time_owned > 10).
FinancialDistressFormula ==
    (scored.method = "_calculate_financial_distress" /\ NumericOwnerInfo(scored.arg))
    => LET tags == IndicatorSet(scored.arg)
           estimated_equity == OwnerNumber(scored.arg, "estimated_equity")
           time_owned == OwnerNumber(scored.arg, "time_owned")
           total == (IF "tax_delinquent" \in tags THEN 30 ELSE 0)
                    + (IF "mortgage_default" \in tags THEN 30 ELSE 0)
                    + (IF estimated_equity > 50 THEN 20
                       ELSE IF estimated_equity > 30 THEN 10 ELSE 0)
                    + (IF time_owned > 10 THEN 20 ELSE 0)
       IN  /\ ~scored.raised
           /\ scored.value = IF total > 100 THEN 100 ELSE total

\* C19 witness: the record with indicators tax_delinquent and vacant,
\* estimated_equity 45 and time_owned 8 was scored 40.
FinancialDistressFormulaWitness ==
    /\ scored.method = "_calculate_financial_distress"
    /\ IndicatorSet(scored.arg) = {"tax_delinquent", "vacant"}
    /\ "owner_info" \in DOMAIN scored.arg
    /\ DOMAIN scored.arg.owner_info = {"estimated_equity", "time_owned"}
    /\ OwnerNumber(scored.arg, "estimated_equity") = 45
    /\ OwnerNumber(scored.arg, "time_owned") = 8
    /\ scored.value = 40

\* C20: time_pressure is 40 if pre_foreclosure is an indicator + 20 if vacant
\* is one + (20 if days_on_market > 180, else 10 if days_on_market > 90) +
\* min(price_drops * 5, 20), with absent days_on_market and price_drops
\* counted as 0, and it lies in 0..100 whatever integers they are.
TimePressureFormula ==
    scored.method = "_calculate_time_pressure"
    => LET tags == IndicatorSet(scored.arg)
           days_on_market == DictGet(scored.arg, "days_on_market", 0)
           price_drops == DictGet(scored.arg, "price_drops", 0)
           reductions == IF price_drops * 5 < 20 THEN price_drops * 5 ELSE 20
       IN  /\ scored.value
                = (IF "pre_foreclosure" \in tags THEN 40 ELSE 0)
                  + (IF "vacant" \in tags THEN 20 ELSE 0)
                  + (IF days_on_market > 180 THEN 20
                     ELSE IF days_on_market > 90 THEN 10 ELSE 0)
                  + reductions
           /\ scored.value \in 0..100

\* how many items the repair list of a kind holds, none when it is absent
RepairCount(data, kind) ==
    LET details == DictGet(data, "property_details", << >>)
        repairs_needed == DictGet(details, "repairs_needed", << >>)
    IN  Len(DictGet(repairs_needed, kind, << >>))

\* C21: property_condition is max(0, 100 - 15 per major repair item - 10 per
\* moderate one - 5 per minor one - (20 if current year - year_built > 50,
\* else 10 if that age > 30)), an absent year_built counting as the data
\* model's numeric default 0 and absent repair lists as empty.
PropertyConditionFormula ==
    scored.method = "_calculate_property_condition"
    => LET details == DictGet(scored.arg, "property_details", << >>)
           age == scored.clock - DictGet(details, "year_built", 0)
           total == 100 - 15 * RepairCount(scored.arg, "major")
                        - 10 * RepairCount(scored.arg, "moderate")
                        - 5 * RepairCount(scored.arg, "minor")
                        - (IF age > 50 THEN 20 ELSE IF age > 30 THEN 10 ELSE 0)
       IN  scored.value = IF total < 0 THEN 0 ELSE total

\* price and ARV are both in the record and neither is zero
PriceAndArvPresent(data) ==
    /\ "price" \in DOMAIN data
    /\ data.price # 0
    /\ "financial_metrics" \in DOMAIN data
    /\ "arv" \in DOMAIN data.financial_metrics
    /\ data.financial_metrics.arv # 0

\* price / arv < tenths / 10 for arv # 0: both sides multiplied by 10 * arv,
\* which turns the inequality round when arv is negative
PriceToArvBelow(data, tenths) ==
    LET price == data.price
        arv == data.financial_metrics.arv
    IN  (arv > 0 /\ 10 * price < tenths * arv) \/ (arv < 0 /\ 10 * price > tenths * arv)

\* C22: market_position is min(100, 50 + ratio bonus + appreciation bonus);
\* the ratio bonus is 30, 20 or 10 for price/ARV below 0.7, 0.8 or 0.9 when
\* price and ARV are both present and non-zero, and 0 otherwise, where no
\* division fails; the appreciation bonus is 20 for a rate above 10, 10 for
\* one above 5.
MarketPositionFormula ==
    scored.method = "_calculate_market_position"
    => LET data == scored.arg
           ratio_bonus == IF PriceAndArvPresent(data)
                          THEN IF PriceToArvBelow(data, 7) THEN 30
                               ELSE IF PriceToArvBelow(data, 8) THEN 20
                               ELSE IF PriceToArvBelow(data, 9) THEN 10 ELSE 0
                          ELSE 0
           rate == DictGet(DictGet(data, "market_data", << >>), "appreciation_rate", 0)
           rate_bonus == IF rate > 10 THEN 20 ELSE IF rate > 5 THEN 10 ELSE 0
           total == 50 + ratio_bonus + rate_bonus
       IN  /\ ~scored.raised
           /\ scored.value = IF total > 100 THEN 100 ELSE total

\* C22 witness: a record with price 69, ARV 100 and appreciation rate 11 was
\* scored 100; one with price 70 and ARV 0 would be scored 50.
MarketPositionFormulaWitness ==
    /\ scored.method = "_calculate_market_position"
    /\ PriceAndArvPresent(scored.arg)
    /\ scored.arg.price = 69
    /\ scored.arg.financial_metrics.arv = 100
    /\ DictGet(DictGet(scored.arg, "market_data", << >>), "appreciation_rate", 0) = 11
    /\ scored.value = 100

---------------------------------------------------------------------------
(* Properties of the reports *)

\* the title and the section headings tests/test_chat.py looks for in the
\* report of each analysis type
ReportTitle ==
    [value_analysis |-> "Value Analysis:",
     property_details |-> "Property Details:",
     owner_info |-> "Owner Analysis:",
     occupancy |-> "Occupancy Analysis:",
     distressed |-> "Distressed Property Analysis",
     market |-> "Market Analysis Report",
     investment |-> "Investment Analysis:"]

SectionHeadings ==
    [value_analysis |-> {"Current Valuation:", "Market Comparison:"},
     property_details |-> {"Basic Information:", "Construction Details:"},
     owner_info |-> {"Owner Profile:", "Financial Status:"},
     occupancy |-> {"Current Status:", "Risk Assessment:"},
     distressed |-> {"Lead Score Analysis:", "Action Plan:"},
     market |-> {"Price Trends & Velocity:", "Market Conditions:"},
     investment |-> {"Purchase Analysis:", "Returns:"}]

\* some line of the response contains text
SomeLineHas(response, text) ==
    \E i \in 1..Len(response) : Contains(response[i], text)

\* r is a successful result whose first line holds the title of category c
\* and whose lines hold c's section headings
HasReport(r, c) ==
    /\ r.status = "success"
    /\ Len(r.response) > 0
    /\ Contains(r.response[1], ReportTitle[c])
    /\ \A heading \in SectionHeadings[c] : SomeLineHas(r.response, heading)

\* the query mentions category c: a keyword of c is in the lowercased query
Mentions(query, c) == \E kw \in ChatKeywords[c] : Contains(Lower(query), kw)

LeadScoringQuery(query) ==
    Contains(Lower(query), "vacant") /\ Contains(Lower(query), "motivated")

\* C18: process_query on a query that mentions both vacancy and motivated
\* sellers returns status success with a response that has the 'Lead Score
\* Analysis:' section, a 'Priority Level:' line and the 'Action Plan:' section.
LeadScoringReported ==
    (call.method = "process_query" /\ call.isStr /\ LeadScoringQuery(call.query))
    => /\ result.status = "success"
       /\ SomeLineHas(result.response, "Lead Score Analysis:")
       /\ SomeLineHas(result.response, "Priority Level:")
       /\ SomeLineHas(result.response, "Action Plan:")

---------------------------------------------------------------------------
(* The frame of the cache operations *)

\* the entries under the keys other than key are the same in c and d
SameElsewhere(c, d, key) ==
    /\ DOMAIN c \ {key} = DOMAIN d \ {key}
    /\ \A k \in DOMAIN c \ {key} : d[k] = c[k]

\* the step looks key up: a get of it, or a fetch of a query cached under it
LooksUp(key) ==
    \/ Get(key)
    \/ \E t \in Tasks, query \in FetchQueries :
          CacheKeyOf[query] = key /\ FetchStart(t, query)

\* C25: a get or a fetch that finds a fresh entry under its key leaves the
\* whole cache as it was, so an entry's stored_at stays the time of its last
\* put; a get that finds a stale entry removes that entry and no other; a put
\* changes the entry under its key and no other; a stale entry leaves the
\* cache only in a step that looks its key up.
CacheFrame ==
    [][/\ \A key \in CacheKeys :
            /\ (LooksUp(key) /\ Fresh(cache, now, key)) => cache' = cache
            /\ (Get(key) /\ Stale(cache, now, key)) => cache' = Del(cache, key)
            /\ (\E data \in Records : Put(key, data))
                  => /\ SameElsewhere(cache, cache', key)
                     /\ Present(cache', key)
            /\ (Stale(cache, now, key) /\ ~LooksUp(key))
                  => (Present(cache', key) /\ (cache'[key] = cache[key] \/ putLog'[key] # putLog[key]))
       /\ \A key \in DOMAIN cache' :
            /\ key \in DOMAIN putLog'
            /\ cache'[key].timestamp = putLog'[key].timestamp]_vars

\* C25 witness: a get has just hit an entry stored some time ago, whose
\* stored_at is still the time of its put, while a stale entry under another
\* key is still in the cache.
CacheFrameWitness ==
    /\ ret.op = "get" /\ ret.data # None
    /\ Fresh(cache, now, ret.key)
    /\ now - cache[ret.key].timestamp > 0
    /\ cache[ret.key].timestamp = putLog[ret.key].timestamp
    /\ \E k \in DOMAIN cache : k # ret.key /\ Stale(cache, now, k)

====
